---- MODULE Spec2Model ----
(***************************************************************************)
(* Model of auto-commit.py: GitCommitHelper.  One run of the script is a   *)
(* sequential walk through the external interactions of run(): the         *)
(* credential check, the staged-file listing, one diff and one file read   *)
(* per staged file, one request to the text-generation service, one line   *)
(* of confirmation input and the commit.  The environment (the variable    *)
(* ANTHROPIC_API_KEY, git's answers, the service's answer, the typed line) *)
(* is chosen nondeterministically from small sets.                         *)
(*                                                                         *)
(* Python values are modelled by their type and content: a str is a TLA+   *)
(* string, the service's message.content is a list of text blocks, the     *)
(* prompt is the sequence of the pieces the f-strings concatenate, the     *)
(* line typed at the prompt is a sequence of one-character strings.        *)
(***************************************************************************)
EXTENDS Integers, Sequences, FiniteSets, TLC

(* ---------------------------- bounds ---------------------------------- *)

\* pieces of the output of `git diff --cached --name-only` after
\* split('\n'); the piece after the last newline is empty
MaxLines == 2
\* content blocks in an answer of the service
MaxBlocks == 2
\* characters typed at the confirmation prompt
MaxInputLen == 1
\* records handed to generate_fallback_message when it is checked alone
MaxChanges == 3

(* ---------------------------- value sets ------------------------------ *)

Paths == {"a.txt", "b.py"}
Lines == Paths \cup {""}
Diffs == {"", "@@ -1 +1 @@"}
FileText == "print(1)"
Texts == {"Fix parser", "Add tests"}
InputChars == {"y", "Y", "e", "E", "n", " "}
\* longer lines typed at the prompt, beside every line of at most MaxInputLen
ExtraInputs ==
    { <<"y", "e", "s">>, <<"Y", "E", "S">>, <<" ", "y", " ">>, <<"y", " ">>,
      <<" ", "e">>, <<"e", "y">>, <<"n", "o">> }
\* value of os.getenv('ANTHROPIC_API_KEY'): None, '' or a key
NoneValue == "<None>"
KeyValues == {NoneValue, "", "sk-ant-key"}
\* content of .git/COMMIT_EDITMSG left by an earlier commit
ScratchBefore == "previous message"

SeqsUpTo(S, n) == UNION {[1..k -> S] : k \in 0..n}

\* str.split never returns an empty list
Listings == UNION {[1..k -> Lines] : k \in 1..MaxLines}
Answers == SeqsUpTo(Texts, MaxBlocks)
Inputs == SeqsUpTo(InputChars, MaxInputLen) \cup ExtraInputs
Records == [path : Paths, diff : Diffs, content : {"", FileText}]

NoMessage == [kind |-> "none", blocks |-> <<>>, text |-> ""]
StrMessage(s) == [kind |-> "str", blocks |-> <<>>, text |-> s]
BlocksMessage(b) == [kind |-> "blocks", blocks |-> b, text |-> ""]

VARIABLES
    pc,             \* position in the script
    api_key,        \* os.getenv('ANTHROPIC_API_KEY')
    listing,        \* lines printed by git diff --cached --name-only
    staged_files,   \* get_staged_changes: the filtered list
    changes,        \* get_staged_changes: the records appended so far
    git_log,        \* history: per staged file, what git and open() answered
    prompt,         \* the prompt sent to the service
    commit_message, \* run: value returned by get_commit_message_from_claude
    displayed,      \* text printed as the suggested commit message
    confirmation,   \* the line read by input()
    commit_arg,     \* message argument of git commit -m
    scratch,        \* content of .git/COMMIT_EDITMSG
    trace,          \* history: external effects, in order
    exit_code,      \* process exit status, -1 while running
    exit_how        \* "running", "sys_exit", "return" or "traceback"

vars == <<pc, api_key, listing, staged_files, changes, git_log, prompt,
          commit_message, displayed, confirmation, commit_arg, scratch,
          trace, exit_code, exit_how>>

NoInput == <<"<no input>">>

(* ---------------------------- pure helpers ---------------------------- *)

\* line 24: [f for f in staged_files if f]
NonEmpty(f) == f # ""
FilterStaged(lines) == SelectSeq(lines, NonEmpty)

\* variant: the check written as `os.getenv(...) is None`
KeyMissing_none_only(key) == key = NoneValue

\* line 119: not os.getenv('ANTHROPIC_API_KEY')
KeyMissing(key) == key = NoneValue \/ key = ""

\* lines 50-61 and 68: the fixed texts around the file sections
Header == "You are a helpful assistant ... Here are the changes:\n\n"
Closing == "\nBased on these changes, generate a commit message that explains what was changed and why."

\* lines 64-66: the three f-strings appended for one record
FileSection(r) ==
    << "File: ", r.path, "\n",
       "Diff:\n", r.diff, "\n",
       "Current file content:\n", r.content, "\n\n" >>

RECURSIVE Sections(_)
Sections(ch) ==
    IF ch = <<>> THEN <<>> ELSE FileSection(Head(ch)) \o Sections(Tail(ch))

\* variant: the records serialized last to first
prepare_claude_prompt_reversed(ch) ==
    <<Header>> \o Sections([i \in DOMAIN ch |-> ch[Len(ch) + 1 - i]]) \o <<Closing>>

\* lines 46-69
prepare_claude_prompt(ch) == <<Header>> \o Sections(ch) \o <<Closing>>

\* variant: the one-file case left out
generate_fallback_message_count_only(ch) ==
    "Update " \o ToString(Len(ch)) \o " files"

\* lines 96-104
generate_fallback_message(ch) ==
    IF Len(ch) = 1
    THEN "Update " \o ch[1].path
    ELSE "Update " \o ToString(Len(ch)) \o " files"

\* str.lower() on the characters that can be typed
LowerChar(c) ==
    CASE c = "Y" -> "y" [] c = "E" -> "e" [] c = "N" -> "n" [] c = "S" -> "s"
      [] c = "O" -> "o" [] OTHER -> c
Lower(s) == [i \in DOMAIN s |-> LowerChar(s[i])]

\* variant: the comparison without .lower()
Decision_case_sensitive(line) ==
    IF line = <<"y">> THEN "accept"
    ELSE IF line = <<"e">> THEN "edit"
    ELSE "cancel"

\* lines 135-143: the branch run() takes on the line typed
Decision(line) ==
    IF Lower(line) = <<"y">> THEN "accept"
    ELSE IF Lower(line) = <<"e">> THEN "edit"
    ELSE "cancel"

(* ---------------------------- process exit ---------------------------- *)

\* sys.exit(code)
SysExit(code) ==
    /\ pc' = "done"
    /\ exit_code' = code
    /\ exit_how' = "sys_exit"

\* an exception no handler catches: the interpreter prints the traceback
\* and exits with status 1
Uncaught ==
    /\ pc' = "done"
    /\ exit_code' = 1
    /\ exit_how' = "traceback"

\* run() returns and the script ends
Return ==
    /\ pc' = "done"
    /\ exit_code' = 0
    /\ exit_how' = "return"

Running(next) ==
    /\ pc' = next
    /\ UNCHANGED <<exit_code, exit_how>>

(* ---------------------------- initial state --------------------------- *)

Init ==
    /\ pc = "main"
    /\ api_key \in KeyValues
    /\ listing = <<>>
    /\ staged_files = <<>>
    /\ changes = <<>>
    /\ git_log = <<>>
    /\ prompt = <<>>
    /\ commit_message = NoMessage
    /\ displayed = ""
    /\ confirmation = NoInput
    /\ commit_arg = ""
    /\ scratch = ScratchBefore
    /\ trace = <<>>
    /\ exit_code = -1
    /\ exit_how = "running"

(* ---------------------------- the script ------------------------------ *)

Log(e) == trace' = Append(trace, e)

\* lines 145-146 and 10-13: the client is built from the environment
\* variable; the client accepts a missing key and only fails on a request
Construct ==
    /\ pc = "main"
    /\ Running("run")
    /\ UNCHANGED <<api_key, listing, staged_files, changes, git_log, prompt,
                   commit_message, displayed, confirmation, commit_arg,
                   scratch, trace>>

\* lines 118-121
run_check_key ==
    /\ pc = "run"
    /\ IF KeyMissing(api_key)
       THEN /\ Log("print: ANTHROPIC_API_KEY not set")
            /\ SysExit(1)
       ELSE /\ UNCHANGED trace
            /\ Running("list")
    /\ UNCHANGED <<api_key, listing, staged_files, changes, git_log, prompt,
                   commit_message, displayed, confirmation, commit_arg,
                   scratch>>

\* lines 19-26 and 42-44: the listing.  git answers with lines, exits
\* non-zero (CalledProcessError, caught), or cannot be started at all
\* (FileNotFoundError, which the except clause does not name)
list_staged_files ==
    /\ pc = "list"
    /\ \/ \E out \in Listings :
            /\ listing' = out
            /\ staged_files' = FilterStaged(out)
            /\ Log("git diff --cached --name-only")
            /\ Running("collect")
       \/ /\ trace' = trace \o <<"git diff --cached --name-only",
                                 "print: Not a git repository or git is not installed">>
          /\ SysExit(1)
          /\ UNCHANGED <<listing, staged_files>>
       \/ /\ Log("git diff --cached --name-only")
          /\ Uncaught
          /\ UNCHANGED <<listing, staged_files>>
    /\ UNCHANGED <<api_key, changes, git_log, prompt, commit_message,
                   displayed, confirmation, commit_arg, scratch>>

\* lines 33-37: the content read, "" when open() or read() raises
ReadContent(ok, data) == IF ok THEN data ELSE ""

\* lines 27-39 and 42-44: one iteration of the loop over staged_files
collect_file ==
    /\ pc = "collect"
    /\ Len(changes) < Len(staged_files)
    /\ LET file_path == staged_files[Len(changes) + 1] IN
       \/ \E diff \in Diffs, ok \in BOOLEAN :
            /\ changes' = Append(changes,
                   [path |-> file_path, diff |-> diff,
                    content |-> ReadContent(ok, FileText)])
            /\ git_log' = Append(git_log,
                   [path |-> file_path, diff |-> diff, ok |-> ok,
                    data |-> FileText])
            /\ trace' = trace \o <<"git diff --cached <file>", "open <file> r">>
            /\ Running("collect")
       \/ /\ trace' = trace \o <<"git diff --cached <file>",
                                 "print: Not a git repository or git is not installed">>
          /\ SysExit(1)
          /\ UNCHANGED <<changes, git_log>>
    /\ UNCHANGED <<api_key, listing, staged_files, prompt, commit_message,
                   displayed, confirmation, commit_arg, scratch>>

\* variant: the check written as `changes is None`
NotChanges_is_none(ch) == FALSE

\* line 125: not changes
NotChanges(ch) == Len(ch) = 0

\* lines 41 and 123-127: the loop is over and nothing was staged
run_no_changes ==
    /\ pc = "collect"
    /\ Len(changes) = Len(staged_files)
    /\ NotChanges(changes)
    /\ Log("print: No changes staged for commit")
    /\ SysExit(0)
    /\ UNCHANGED <<api_key, listing, staged_files, changes, git_log, prompt,
                   commit_message, displayed, confirmation, commit_arg,
                   scratch>>

\* variant: a failed request is sent a second time before falling back
get_commit_message_with_retry ==
    /\ pc = "collect"
    /\ Len(changes) = Len(staged_files)
    /\ ~NotChanges(changes)
    /\ prompt' = prepare_claude_prompt(changes)
    /\ \/ \E content \in Answers :
            /\ commit_message' = BlocksMessage(content)
            /\ Log("messages.create")
       \/ \E content \in Answers :
            /\ commit_message' = BlocksMessage(content)
            /\ trace' = trace \o <<"messages.create", "messages.create">>
       \/ /\ commit_message' = StrMessage(generate_fallback_message(changes))
          /\ trace' = trace \o <<"messages.create", "messages.create",
                                 "print: Error calling Claude API">>
    /\ Running("show")
    /\ UNCHANGED <<api_key, listing, staged_files, changes, git_log,
                   displayed, confirmation, commit_arg, scratch>>

\* lines 129 and 71-94: the prompt is built and sent once; any exception
\* is printed and the fallback string is returned instead of the blocks
get_commit_message_from_claude ==
    /\ pc = "collect"
    /\ Len(changes) = Len(staged_files)
    /\ ~NotChanges(changes)
    /\ prompt' = prepare_claude_prompt(changes)
    /\ \/ \E content \in Answers :
            /\ commit_message' = BlocksMessage(content)
            /\ Log("messages.create")
       \/ /\ commit_message' = StrMessage(generate_fallback_message(changes))
          /\ trace' = trace \o <<"messages.create", "print: Error calling Claude API">>
    /\ Running("show")
    /\ UNCHANGED <<api_key, listing, staged_files, changes, git_log,
                   displayed, confirmation, commit_arg, scratch>>

\* commit_message[0].text: what the expression evaluates to
FirstTextError(m) ==
    IF m.kind = "str"
    THEN IF m.text = "" THEN "IndexError" ELSE "AttributeError"
    ELSE IF m.blocks = <<>> THEN "IndexError" ELSE "none"

\* variant: the last block taken instead of the first
FirstText_last(m) == m.blocks[Len(m.blocks)]

\* commit_message[0].text: its value when it raises nothing
FirstText(m) == m.blocks[1]

\* lines 131-132
show_message ==
    /\ pc = "show"
    /\ IF FirstTextError(commit_message) = "none"
       THEN /\ displayed' = FirstText(commit_message)
            /\ trace' = trace \o <<"print: Suggested commit message:",
                                   "print: <message>">>
            /\ Running("confirm")
       ELSE /\ Log("print: Suggested commit message:")
            /\ Uncaught
            /\ UNCHANGED displayed
    /\ UNCHANGED <<api_key, listing, staged_files, changes, git_log, prompt,
                   commit_message, confirmation, commit_arg, scratch>>

\* line 134: one line is read; a closed stdin raises EOFError
read_confirmation ==
    /\ pc = "confirm"
    /\ \/ \E line \in Inputs :
            /\ confirmation' = line
            /\ Log("input")
            /\ Running("decide")
       \/ /\ Log("input")
          /\ Uncaught
          /\ UNCHANGED confirmation
    /\ UNCHANGED <<api_key, listing, staged_files, changes, git_log, prompt,
                   commit_message, displayed, commit_arg, scratch>>

\* lines 135-136 and 106-115
create_commit ==
    /\ pc = "decide"
    /\ Decision(confirmation) = "accept"
    /\ commit_arg' = FirstText(commit_message)
    /\ \/ /\ trace' = trace \o <<"git commit -m", "print: Successfully created commit">>
          /\ Return
       \/ /\ trace' = trace \o <<"git commit -m", "print: Failed to create commit">>
          /\ SysExit(1)
    /\ UNCHANGED <<api_key, listing, staged_files, changes, git_log, prompt,
                   commit_message, displayed, confirmation, scratch>>

\* f.write(x): only a str can be written to a text file
WriteError(m) == IF m.kind = "str" THEN "none" ELSE "TypeError"

\* lines 137-141: open(..., 'w') truncates the file, or fails (the
\* script was started below the repository root); f.write is handed
\* commit_message itself; git commit -e runs with check=True outside any try
edit_commit ==
    /\ pc = "decide"
    /\ Decision(confirmation) = "edit"
    /\ \/ /\ UNCHANGED scratch
          /\ Log("open COMMIT_EDITMSG w")
          /\ Uncaught
       \/ /\ IF WriteError(commit_message) = "none"
             THEN /\ scratch' = commit_message.text
                  /\ \/ /\ trace' = trace \o <<"open COMMIT_EDITMSG w", "write", "git commit -e">>
                        /\ Return
                     \/ /\ trace' = trace \o <<"open COMMIT_EDITMSG w", "write", "git commit -e">>
                        /\ Uncaught
             ELSE /\ scratch' = ""
                  /\ Log("open COMMIT_EDITMSG w")
                  /\ Uncaught
    /\ UNCHANGED <<api_key, listing, staged_files, changes, git_log, prompt,
                   commit_message, displayed, confirmation, commit_arg>>

\* lines 142-143
cancel_commit ==
    /\ pc = "decide"
    /\ Decision(confirmation) = "cancel"
    /\ Log("print: Commit cancelled")
    /\ Return
    /\ UNCHANGED <<api_key, listing, staged_files, changes, git_log, prompt,
                   commit_message, displayed, confirmation, commit_arg,
                   scratch>>

Next ==
    \/ Construct
    \/ run_check_key
    \/ list_staged_files
    \/ collect_file
    \/ run_no_changes
    \/ get_commit_message_from_claude
    \/ show_message
    \/ read_confirmation
    \/ create_commit
    \/ edit_commit
    \/ cancel_commit

Spec == Init /\ [][Next]_vars

(* ------------- generate_fallback_message checked on its own ----------- *)

\* any list of records, the empty one included
InitFallback ==
    /\ pc = "fallback"
    /\ api_key = "sk-ant-key"
    /\ listing = <<>>
    /\ staged_files = <<>>
    /\ changes \in SeqsUpTo(Records, MaxChanges)
    /\ git_log = <<>>
    /\ prompt = <<>>
    /\ commit_message = NoMessage
    /\ displayed = ""
    /\ confirmation = NoInput
    /\ commit_arg = ""
    /\ scratch = ScratchBefore
    /\ trace = <<>>
    /\ exit_code = -1
    /\ exit_how = "running"

call_generate_fallback_message ==
    /\ pc = "fallback"
    /\ commit_message' = StrMessage(generate_fallback_message(changes))
    /\ Running("fallback_done")
    /\ UNCHANGED <<api_key, listing, staged_files, changes, git_log, prompt,
                   displayed, confirmation, commit_arg, scratch, trace>>

NextFallback == call_generate_fallback_message

SpecFallback == InitFallback /\ [][NextFallback]_vars

(* ---------------------------- properties ------------------------------ *)

Count(e) == Len(SelectSeq(trace, LAMBDA x : x = e))
Before(a, b) ==
    \A i \in DOMAIN trace, j \in DOMAIN trace :
        (trace[i] = a /\ trace[j] = b) => i < j

GitEvents ==
    { "git diff --cached --name-only", "git diff --cached <file>",
      "git commit -m", "git commit -e" }
Mutations == {"git commit -m", "git commit -e", "open COMMIT_EDITMSG w", "write"}

RemoteFailed == Count("print: Error calling Claude API") > 0
Typed(line) == pc = "done" /\ confirmation = line
Accepted == Typed(<<"y">>) \/ Typed(<<"Y">>)
Edited == Typed(<<"e">>) \/ Typed(<<"E">>)

\* C1: a run in which the user typed y or Y has invoked git commit -m
\* exactly once, and the message argument is the message of the generation
\* step: the text the service returned (shown to the user), or the
\* fallback message when the request failed.
C1_AcceptCommitsOnceWithMessage ==
    Accepted =>
        /\ Count("git commit -m") = 1
        /\ Count("git commit -e") = 0
        /\ commit_arg = displayed
        /\ IF RemoteFailed
           THEN commit_arg = generate_fallback_message(changes)
           ELSE /\ commit_message.kind = "blocks"
                /\ commit_arg = Head(commit_message.blocks)

C1_Witness ==
    /\ Typed(<<"Y">>)
    /\ exit_code = 0
    /\ Len(commit_message.blocks) = 2
    /\ commit_message.blocks[1] # commit_message.blocks[2]
    /\ commit_arg = commit_message.blocks[1]

\* C2: when the request to the service fails, the run goes on to the
\* confirmation prompt and the message shown is the fallback message of the
\* same changes.
C2_FailureFallsBackAndContinues ==
    (pc = "done" /\ RemoteFailed) =>
        /\ Count("input") = 1
        /\ displayed = generate_fallback_message(changes)
        /\ exit_how # "traceback"

\* C3: with ANTHROPIC_API_KEY unset or empty no git subprocess is ever
\* started, the run never gets past the credential check, and it ends with
\* a non-zero exit code.
C3_NoKeyNoRepositoryAccess ==
    (api_key = NoneValue \/ api_key = "") =>
        /\ \A i \in DOMAIN trace : trace[i] \notin GitEvents
        /\ pc \in {"main", "run", "done"}
        /\ pc = "done" => exit_code # 0

C3_Witness ==
    /\ api_key = NoneValue
    /\ pc = "done"
    /\ exit_code = 1
    /\ trace = <<"print: ANTHROPIC_API_KEY not set">>

\* C4: when the listing succeeds and every line of it is empty, no request
\* is sent, no confirmation is read, no commit is invoked, and the run ends
\* with exit code 0.
C4_NothingStagedExitsZero ==
    (listing # <<>> /\ \A i \in DOMAIN listing : listing[i] = "") =>
        /\ Count("messages.create") = 0
        /\ Count("input") = 0
        /\ \A i \in DOMAIN trace : trace[i] \notin Mutations
        /\ pc \in {"collect", "done"}
        /\ pc = "done" => (exit_code = 0 /\ exit_how = "sys_exit")

C4_Witness ==
    /\ listing = <<"", "">>
    /\ pc = "done"
    /\ exit_code = 0
    /\ trace[Len(trace)] = "print: No changes staged for commit"

\* C5: a run in which the user typed e or E has written the message shown
\* into .git/COMMIT_EDITMSG and has then invoked git commit -e.
C5_EditWritesMessageThenCommits ==
    Edited =>
        /\ scratch = displayed
        /\ Count("write") = 1
        /\ Count("git commit -e") = 1
        /\ Before("write", "git commit -e")

\* C6: the line typed decides the branch: y or Y commits with the message,
\* e or E enters the edit branch, and every other line cancels: no commit,
\* .git/COMMIT_EDITMSG untouched, normal end with exit code 0.
C6_DecisionMapping ==
    (pc = "done" /\ confirmation # NoInput) =>
        IF confirmation \in {<<"y">>, <<"Y">>}
        THEN /\ Count("git commit -m") = 1
             /\ commit_arg = displayed
             /\ Count("open COMMIT_EDITMSG w") = 0
             /\ Count("print: Commit cancelled") = 0
        ELSE IF confirmation \in {<<"e">>, <<"E">>}
        THEN /\ Count("open COMMIT_EDITMSG w") = 1
             /\ Count("git commit -m") = 0
             /\ Count("print: Commit cancelled") = 0
        ELSE /\ \A i \in DOMAIN trace : trace[i] \notin Mutations
             /\ scratch = ScratchBefore
             /\ trace[Len(trace)] = "print: Commit cancelled"
             /\ exit_code = 0
             /\ exit_how = "return"

C6_Witness ==
    /\ Typed(<<"y", "e", "s">>)
    /\ exit_code = 0
    /\ trace[Len(trace)] = "print: Commit cancelled"

IsPrint(e) ==
    e \in { "print: ANTHROPIC_API_KEY not set",
            "print: Not a git repository or git is not installed",
            "print: Failed to create commit" }

\* C7: no run ends in an uncaught exception, and a run that ends with a
\* non-zero exit code has printed its explanation last.
C7_FatalFailuresExitControlled ==
    pc = "done" =>
        /\ exit_how # "traceback"
        /\ exit_code # 0 => (trace # <<>> /\ IsPrint(trace[Len(trace)]))

\* C8: once the prompt is built, the records are the non-empty lines of the
\* listing, one each and in that order, with the diff git printed and the
\* content read ("" when the read failed); and the prompt is the header,
\* then per record its path, diff and content sections in that order, then
\* the closing instruction.
C8_RecordsAndPromptFollowListing ==
    prompt # <<>> =>
        LET n == Cardinality({i \in DOMAIN listing : listing[i] # ""})
            Rank(i) == Cardinality({j \in 1..i : listing[j] # ""})
        IN  /\ n > 0
            /\ Len(changes) = n
            /\ Len(git_log) = n
            /\ \A i \in DOMAIN listing :
                   listing[i] # "" => changes[Rank(i)].path = listing[i]
            /\ \A k \in 1..n :
                   /\ changes[k].path = git_log[k].path
                   /\ changes[k].diff = git_log[k].diff
                   /\ changes[k].content =
                          (IF git_log[k].ok THEN git_log[k].data ELSE "")
            /\ Len(prompt) = 9 * n + 2
            /\ prompt[1] = Header
            /\ prompt[Len(prompt)] = Closing
            /\ \A k \in 1..n :
                   LET b == 9 * (k - 1) + 1 IN
                   /\ prompt[b + 1] = "File: "
                   /\ prompt[b + 2] = changes[k].path
                   /\ prompt[b + 4] = "Diff:\n"
                   /\ prompt[b + 5] = changes[k].diff
                   /\ prompt[b + 7] = "Current file content:\n"
                   /\ prompt[b + 8] = changes[k].content
            /\ Cardinality({i \in DOMAIN prompt : prompt[i] = "File: "}) = n
            /\ Cardinality({i \in DOMAIN prompt : prompt[i] = "Diff:\n"}) = n
            /\ Cardinality({i \in DOMAIN prompt :
                               prompt[i] = "Current file content:\n"}) = n

C8_Witness ==
    /\ listing = <<"b.py", "a.txt">>
    /\ prompt # <<>>
    /\ ~git_log[1].ok
    /\ git_log[2].ok
    /\ changes[1] = [path |-> "b.py", diff |-> "@@ -1 +1 @@", content |-> ""]
    /\ changes[2].content = FileText

\* C9: generate_fallback_message returns "Update <path>" for exactly one
\* record and "Update <N> files" for any other number of records, zero
\* included, and does nothing else.
C9_FallbackMessage ==
    pc = "fallback_done" =>
        /\ commit_message.kind = "str"
        /\ Len(changes) = 1 =>
               \E p \in Paths :
                   /\ changes[1].path = p
                   /\ commit_message.text = "Update " \o p
        /\ Len(changes) # 1 =>
               commit_message.text = "Update " \o ToString(Len(changes)) \o " files"
        /\ Len(changes) = 0 => commit_message.text = "Update 0 files"
        /\ Len(changes) = 3 => commit_message.text = "Update 3 files"
        /\ trace = <<>>

C9_Witness ==
    /\ pc = "fallback_done"
    /\ Len(changes) = 1
    /\ changes[1].path = "a.txt"
    /\ commit_message.text = "Update a.txt"

Phase(e) ==
    CASE e = "git diff --cached --name-only" -> 1
      [] e \in {"git diff --cached <file>", "open <file> r"} -> 2
      [] e = "messages.create" -> 3
      [] e = "input" -> 4
      [] e \in Mutations -> 5
      [] OTHER -> 0

\* C10: the external steps happen in the order collection, request,
\* confirmation, mutation; there is at most one request, sent only after
\* the collection returned at least one record; nothing is written before
\* the confirmation was read; and at most one commit is invoked.
C10_StepsInOrderAtMostOnce ==
    /\ LET steps == SelectSeq(trace, LAMBDA x : Phase(x) > 0) IN
           \A i \in 1..(Len(steps) - 1) : Phase(steps[i]) <= Phase(steps[i + 1])
    /\ Count("git diff --cached --name-only") <= 1
    /\ Count("messages.create") <= 1
    /\ Count("messages.create") = 1 =>
           (changes # <<>> /\ Len(changes) = Len(staged_files))
    /\ Count("input") <= 1
    /\ Count("git commit -m") + Count("git commit -e") <= 1
    /\ Count("open COMMIT_EDITMSG w") <= 1
    /\ (scratch # ScratchBefore
           \/ \E i \in DOMAIN trace : trace[i] \in Mutations)
          => (Count("input") = 1 /\ confirmation # NoInput)

C10_Witness ==
    /\ pc = "done"
    /\ Count("messages.create") = 1
    /\ Count("input") = 1
    /\ Count("git commit -m") = 1
    /\ Len(changes) = 2

====
